---- MODULE Spec2Model ----
(***************************************************************************)
(* PreciousMetal: the price simulation (rate store), its timer and page    *)
(* lifecycle, the local key-value store and the booking flow of the main   *)
(* application script, with the helper functions of utils.js beside the    *)
(* script's own copies of them.                                            *)
(*                                                                         *)
(* Numbers.  JavaScript numbers are modelled as exact fixed-point values:  *)
(*   - a price, change, high or low is an integer number of 1/PriceScale   *)
(*     rupees (paise);                                                     *)
(*   - a quantity is an integer number of 1/QtyScale units;                *)
(*   - a valuation amount is [int, frac]: int rupees plus frac/Micro;      *)
(*   - changePercent is the exact ratio [num, den];                        *)
(*   - Math.random() returns r/RandDen for r in RandomDraws.               *)
(* Binary floating-point rounding error is not modelled.                   *)
(***************************************************************************)
EXTENDS Integers, Sequences, FiniteSets, TLC

\* ------------------------------------------------------------------ bounds
\* A run holds at most MaxEvents price updates, accepted booking submissions
\* and throwing store calls, counted together.
MaxEvents == 3

\* ------------------------------------------------------- number resolution
PriceScale == 100
QtyScale == 10
RandDen == 1000
Micro == PriceScale * 1000 * QtyScale

Rupees(n) == n * PriceScale

Metals == {"gold", "silver"}

\* --------------------------------------------------------------- CONFIG
CONFIG ==
  [initialRates |->
     [gold   |-> [price |-> Rupees(99320), change |-> Rupees(1250),
                  changePercent |-> [num |-> 128, den |-> 100],
                  high |-> Rupees(99580), low |-> Rupees(98950)],
      silver |-> [price |-> Rupees(106780), change |-> Rupees(0 - 890),
                  changePercent |-> [num |-> 0 - 83, den |-> 100],
                  high |-> Rupees(107450), low |-> Rupees(106320)]],
   maxFluctuation |-> [gold |-> Rupees(50), silver |-> Rupees(80)],
   maxQuantity |-> [gold |-> 500 * QtyScale, silver |-> 50 * QtyScale]]

\* The values Math.random() takes in the model, as numerators over RandDen:
\* the lowest value and the highest value below 1.
RandomDraws == {0, 999}

\* ------------------------------------------------------------- helpers
Max(a, b) == IF a >= b THEN a ELSE b
Min(a, b) == IF a <= b THEN a ELSE b

\* basePrice + (Math.random() - 0.5) * 2 * maxFluctuation, floored at 0
generatePriceFluctuation_FullSwing(basePrice, maxFluctuation, rnd) ==
  LET fluctuation == (2 * rnd * maxFluctuation) \div RandDen - maxFluctuation
  IN  Max(0, basePrice + fluctuation)

\* basePrice + (Math.random() * maxFluctuation - maxFluctuation / 2), floored at 0
generatePriceFluctuation(basePrice, maxFluctuation, rnd) ==
  LET fluctuation == (rnd * maxFluctuation) \div RandDen - maxFluctuation \div 2
  IN  Max(0, basePrice + fluctuation)

\* ((newPrice - oldPrice) / oldPrice) * 100, kept as an exact ratio;
\* den = 0 stands for the NaN or Infinity of a division by zero.
calculatePercentageChange(oldPrice, newPrice) ==
  [num |-> (newPrice - oldPrice) * 100, den |-> oldPrice]

\* calculatePercentageChange of utils.js: 0 when oldValue is 0
utils_calculatePercentageChange(oldValue, newValue) ==
  IF oldValue = 0 THEN [num |-> 0, den |-> 1]
  ELSE [num |-> (newValue - oldValue) * 100, den |-> oldValue]

\* The body of updatePrices' try block up to the display refresh: the new
\* snapshot of one metal from its old one and one random draw.
updateMetal_HighByMin(metal, snap, rnd) ==
  LET price == generatePriceFluctuation(snap.price, CONFIG.maxFluctuation[metal], rnd)
  IN  [price |-> price,
       change |-> price - CONFIG.initialRates[metal].price,
       changePercent |->
         calculatePercentageChange(CONFIG.initialRates[metal].price, price),
       high |-> Min(snap.high, price),
       low |-> Min(snap.low, price)]

updateMetal_ChangeFromPrevious(metal, snap, rnd) ==
  LET price == generatePriceFluctuation(snap.price, CONFIG.maxFluctuation[metal], rnd)
  IN  [price |-> price,
       change |-> price - snap.price,
       changePercent |-> calculatePercentageChange(snap.price, price),
       high |-> Max(snap.high, price),
       low |-> Min(snap.low, price)]

updateMetal_NoFloor(metal, snap, rnd) ==
  LET price == snap.price
               + ((rnd * CONFIG.maxFluctuation[metal]) \div RandDen
                  - CONFIG.maxFluctuation[metal] \div 2)
  IN  [price |-> price,
       change |-> price - CONFIG.initialRates[metal].price,
       changePercent |->
         calculatePercentageChange(CONFIG.initialRates[metal].price, price),
       high |-> Max(snap.high, price),
       low |-> Min(snap.low, price)]

updateMetal(metal, snap, rnd) ==
  LET price == generatePriceFluctuation(snap.price, CONFIG.maxFluctuation[metal], rnd)
  IN  [price |-> price,
       change |-> price - CONFIG.initialRates[metal].price,
       changePercent |->
         calculatePercentageChange(CONFIG.initialRates[metal].price, price),
       high |-> Max(snap.high, price),
       low |-> Min(snap.low, price)]

newRates(rates, rndGold, rndSilver) ==
  [gold |-> updateMetal("gold", rates.gold, rndGold),
   silver |-> updateMetal("silver", rates.silver, rndSilver)]

\* ------------------------------------------------------------- strings
\* The state holds strings whole; the functions that look inside one work on
\* the sequence of its characters, Chars(str).
Chars(str) ==
  CASE str = "" -> <<>>
    [] str = "Gold" -> <<"G", "o", "l", "d">>
    [] str = "Silver" -> <<"S", "i", "l", "v", "e", "r">>
    [] str = "gold" -> <<"g", "o", "l", "d">>
    [] str = "silver" -> <<"s", "i", "l", "v", "e", "r">>
    [] str = "Asha R" -> <<"A", "s", "h", "a", " ", "R">>
    [] str = "9876543210" -> <<"9", "8", "7", "6", "5", "4", "3", "2", "1", "0">>
    [] str = "987" -> <<"9", "8", "7">>
    [] str = "a@b.in" -> <<"a", "@", "b", ".", "i", "n">>
    [] str = "2" -> <<"2">>
    [] str = "10" -> <<"1", "0">>
    [] str = "50" -> <<"5", "0">>
    [] str = "abc" -> <<"a", "b", "c">>
    [] str = "Platinum" -> <<"P", "l", "a", "t", "i", "n", "u", "m">>
    [] str = "R2" -> <<"R", "2">>
    [] str = "1234567890" -> <<"1", "2", "3", "4", "5", "6", "7", "8", "9", "0">>
    [] str = "98765432" -> <<"9", "8", "7", "6", "5", "4", "3", "2">>
    [] str = "a.b" -> <<"a", ".", "b">>
    [] str = "51" -> <<"5", "1">>
    [] str = "500" -> <<"5", "0", "0">>
    [] str = "501" -> <<"5", "0", "1">>
    [] str = "1000" -> <<"1", "0", "0", "0">>
    [] str = "1001" -> <<"1", "0", "0", "1">>
    [] str = "0.5" -> <<"0", ".", "5">>
    [] str = "R" -> <<"R">>
    [] str = "Al" -> <<"A", "l">>
    [] str = "aaaaaaaaaaaaaaaaaaaaaaaaaaaaaaaaaaaaaaaaaaaaaaaaaa" -> [i \in 1..50 |-> "a"]
    [] str = "aaaaaaaaaaaaaaaaaaaaaaaaaaaaaaaaaaaaaaaaaaaaaaaaaaa" -> [i \in 1..51 |-> "a"]
    [] str = "aaaaaaaaaaaaaaaaaaaaaaaaaaaaaaaaaaaaaaaaaaaaaaaaaa2" -> [i \in 1..51 |-> IF i = 51 THEN "2" ELSE "a"]

Digits == <<"0", "1", "2", "3", "4", "5", "6", "7", "8", "9">>
DigitChars == {Digits[i] : i \in 1..10}
DigitValue(c) == (CHOOSE i \in 1..10 : Digits[i] = c) - 1
LetterChars ==
  {"a", "b", "c", "d", "e", "f", "g", "h", "i", "j", "k", "l", "m", "n", "o", "p",
   "q", "r", "s", "t", "u", "v", "w", "x", "y", "z", "A", "B", "C", "D", "E", "F",
   "G", "H", "I", "J", "K", "L", "M", "N", "O", "P", "Q", "R", "S", "T", "U", "V",
   "W", "X", "Y", "Z"}
SpaceChars == {" "}

\* String.prototype.trim
RECURSIVE trimStart(_)
trimStart(str) ==
  IF str # <<>> /\ Head(str) \in SpaceChars THEN trimStart(Tail(str)) ELSE str

RECURSIVE trimEnd(_)
trimEnd(str) ==
  IF str # <<>> /\ str[Len(str)] \in SpaceChars
  THEN trimEnd(SubSeq(str, 1, Len(str) - 1))
  ELSE str

trim(str) == trimEnd(trimStart(str))

\* String.prototype.toLowerCase, on the letters metal names are written with
toLowerCase(str) ==
  [i \in 1..Len(str) |->
     CASE str[i] = "G" -> "g" [] str[i] = "S" -> "s" [] str[i] = "O" -> "o"
       [] str[i] = "L" -> "l" [] str[i] = "D" -> "d" [] str[i] = "I" -> "i"
       [] str[i] = "V" -> "v" [] str[i] = "E" -> "e" [] str[i] = "R" -> "r"
       [] OTHER -> str[i]]

\* ------------------------------------------------------------- numbers
\* The decimal literals the model reads: [+-]digits[.digits].  A number is
\* [nan, value], value in 1/QtyScale units; digits after the first
\* QtyScale-resolved fractional digit are outside the modelled inputs.
NaN == [nan |-> TRUE, value |-> 0]

RECURSIVE digitsValue(_)
digitsValue(str) ==
  IF str = <<>> THEN 0
  ELSE digitsValue(SubSeq(str, 1, Len(str) - 1)) * 10 + DigitValue(str[Len(str)])

\* Length of the longest prefix of str made of digits.
RECURSIVE digitRun(_)
digitRun(str) ==
  IF str # <<>> /\ Head(str) \in DigitChars THEN 1 + digitRun(Tail(str)) ELSE 0

\* The longest prefix of str that is a decimal literal, as
\* [len, value]; len = 0 when str starts with none.
numericPrefix(str) ==
  LET signed == str # <<>> /\ Head(str) \in {"-", "+"}
      neg    == signed /\ Head(str) = "-"
      body   == IF signed THEN Tail(str) ELSE str
      n      == digitRun(body)
      rest   == SubSeq(body, n + 1, Len(body))
      dot    == rest # <<>> /\ Head(rest) = "."
      f      == IF dot THEN digitRun(Tail(rest)) ELSE 0
      whole  == digitsValue(SubSeq(body, 1, n)) * QtyScale
      frac   == IF f = 0 THEN 0 ELSE DigitValue(rest[2]) * (QtyScale \div 10)
      used   == IF n = 0 /\ f = 0 THEN 0
                ELSE (IF signed THEN 1 ELSE 0) + n + (IF dot THEN 1 + f ELSE 0)
  IN  [len |-> used, value |-> IF neg THEN 0 - (whole + frac) ELSE whole + frac]

\* Number.parseFloat: leading white space skipped, then the longest numeric prefix.
parseFloat(str) ==
  LET p == numericPrefix(trimStart(str))
  IN  IF p.len = 0 THEN NaN ELSE [nan |-> FALSE, value |-> p.value]

\* Number(value): the whole trimmed string must be a literal; "" is 0.
Number(str) ==
  LET t == trim(str)
      p == numericPrefix(t)
  IN  IF t = <<>> THEN [nan |-> FALSE, value |-> 0]
      ELSE IF p.len = Len(t) /\ p.len > 0 THEN [nan |-> FALSE, value |-> p.value]
      ELSE NaN

isNaN(str) == Number(str).nan

\* ------------------------------------------------------------- amounts
\* p * q / d as an exact amount, for p, q >= 0 and d a divisor of Micro.
ExactMulDiv(p, q, d) ==
  LET t == (p % d) * q
  IN  [int |-> (p \div d) * q + t \div d, frac |-> (t % d) * (Micro \div d)]

\* Math.round of a non-negative amount: halves go up.
mathRound(a) == a.int + (IF 2 * a.frac >= Micro THEN 1 ELSE 0)

\* Math.round(a * 100) / 100
roundTo2Decimals(a) ==
  LET scaled == [int |-> a.int * 100 + (a.frac * 100) \div Micro,
                 frac |-> (a.frac * 100) % Micro]
      n      == mathRound(scaled)
  IN  [int |-> n \div 100, frac |-> (n % 100) * (Micro \div 100)]

WholeAmount(n) == [int |-> n, frac |-> 0]

GoldStr == "Gold"
SilverStr == "Silver"

\* calculateBookingValue of the application script: currentPrice in paise,
\* quantity in 1/QtyScale units.
calculateBookingValue(metalType, quantity, currentPrice) ==
  [unit |-> IF metalType = GoldStr THEN "grams" ELSE "kg",
   pricePerGram |->
     IF metalType = GoldStr
     THEN ExactMulDiv(currentPrice, 1, PriceScale * 10)
     ELSE ExactMulDiv(currentPrice, 1, PriceScale * 1000),
   totalValue |->
     IF metalType = GoldStr
     THEN ExactMulDiv(currentPrice, quantity, PriceScale * 10 * QtyScale)
     ELSE ExactMulDiv(currentPrice, quantity, PriceScale * QtyScale)]

\* calculateBookingValue of utils.js
utils_calculateBookingValue(metalType, quantity, currentPrice) ==
  LET gold         == metalType = GoldStr
      pricePerGram == IF gold
                      THEN ExactMulDiv(currentPrice, 1, PriceScale * 10)
                      ELSE ExactMulDiv(currentPrice, 1, PriceScale * 1000)
      totalValue   == IF gold
                      THEN ExactMulDiv(currentPrice, quantity, PriceScale * 10 * QtyScale)
                      ELSE ExactMulDiv(currentPrice, quantity, PriceScale * 1000 * QtyScale)
  IN  [pricePerGram |-> roundTo2Decimals(pricePerGram),
       totalValue |-> WholeAmount(mathRound(totalValue)),
       unit |-> "grams",
       quantity |-> quantity]

\* ------------------------------------------------------------- validation
Valid == [isValid |-> TRUE, error |-> "null"]
Invalid(msg) == [isValid |-> FALSE, error |-> msg]

AllIn(str, chars) == \A i \in 1..Len(str) : str[i] \in chars

\* /^[a-zA-Z\s]+$/
matchesName(str) == Len(str) >= 1 /\ AllIn(str, LetterChars \cup SpaceChars)

\* /^\d{10}$/
matchesPhone(str) == Len(str) = 10 /\ AllIn(str, DigitChars)

\* /^[^\s@]+@[^\s@]+\.[^\s@]+$/
matchesEmail(str) ==
  /\ \A i \in 1..Len(str) : str[i] \notin SpaceChars
  /\ Cardinality({i \in 1..Len(str) : str[i] = "@"}) = 1
  /\ LET at == CHOOSE i \in 1..Len(str) : str[i] = "@"
     IN  /\ at > 1
         /\ \E dot \in (at + 2)..(Len(str) - 1) : str[dot] = "."

\* validateField of the application script
validateField(fieldName, value) ==
  IF value = <<>> THEN Invalid("This field is required")
  ELSE CASE fieldName = "name" ->
              IF ~matchesName(value)
              THEN Invalid("Name must contain only letters and spaces") ELSE Valid
         [] fieldName = "phone" ->
              IF ~matchesPhone(value)
              THEN Invalid("Phone number must be 10 digits") ELSE Valid
         [] fieldName = "email" ->
              IF ~matchesEmail(value) THEN Invalid("Invalid email address") ELSE Valid
         [] fieldName = "quantity" ->
              IF isNaN(value) \/ Number(value).value <= 0
              THEN Invalid("Quantity must be a positive number") ELSE Valid
         [] OTHER -> Valid

\* The validation rules of the configuration file, which utils.js
\* validateField is handed (quantities in 1/QtyScale units).
configFile ==
  [validation |->
     [name |-> [minLength |-> 2, maxLength |-> 50],
      phone |-> [length |-> 10],
      email |-> [pattern |-> "email"],
      quantity |-> [min |-> 1 * QtyScale,
                    max |-> [gold |-> 1000 * QtyScale, silver |-> 100 * QtyScale]]]]

\* /^[6-9]\d{9}$/
matchesMobile(str) ==
  Len(str) = 10 /\ AllIn(str, DigitChars) /\ str[1] \in {"6", "7", "8", "9"}

\* validateField of utils.js, with the rules of config.validation
utils_validateField(fieldName, value, config) ==
  IF fieldName \notin DOMAIN config.validation THEN [isValid |-> TRUE, error |-> ""]
  ELSE LET rules == config.validation[fieldName]
       IN  CASE fieldName = "name" ->
                  IF Len(value) < rules.minLength
                  THEN Invalid("Name must be at least 2 characters")
                  ELSE IF Len(value) > rules.maxLength
                  THEN Invalid("Name must not exceed 50 characters")
                  ELSE IF ~matchesName(value)
                  THEN Invalid("Name can only contain letters and spaces")
                  ELSE [isValid |-> TRUE, error |-> ""]
             [] fieldName = "phone" ->
                  IF ~matchesMobile(value)
                  THEN Invalid("Please enter a valid 10-digit Indian mobile number")
                  ELSE [isValid |-> TRUE, error |-> ""]
             [] fieldName = "email" ->
                  IF ~matchesEmail(value)
                  THEN Invalid("Please enter a valid email address")
                  ELSE [isValid |-> TRUE, error |-> ""]
             [] fieldName = "quantity" ->
                  IF parseFloat(value).nan \/ parseFloat(value).value < rules.min
                  THEN Invalid("Quantity must be at least 1")
                  ELSE [isValid |-> TRUE, error |-> ""]
             [] OTHER -> [isValid |-> TRUE, error |-> ""]

FormFields == <<"fullName", "phone", "email", "metalType", "quantity">>

\* The error validateBookingForm's loop leaves for one field ("" is none).
fieldError(formData, fieldName) ==
  LET value == trim(Chars(formData[fieldName]))
      v     == validateField(IF fieldName = "fullName" THEN "name" ELSE fieldName, value)
  IN  IF value = <<>> THEN "This field is required"
      ELSE IF ~v.isValid THEN v.error
      ELSE ""

\* The metal-specific ceiling check that follows the loop.
overCeiling_AtCeiling(formData) ==
  LET metalType == formData.metalType
      quantity  == parseFloat(Chars(formData.quantity))
      key       == toLowerCase(Chars(metalType))
  IN  /\ metalType # ""
      /\ ~quantity.nan /\ quantity.value # 0
      /\ \/ key = Chars("gold") /\ quantity.value >= CONFIG.maxQuantity.gold
         \/ key = Chars("silver") /\ quantity.value >= CONFIG.maxQuantity.silver

overCeiling(formData) ==
  LET metalType == formData.metalType
      quantity  == parseFloat(Chars(formData.quantity))
      key       == toLowerCase(Chars(metalType))
  IN  /\ metalType # ""
      /\ ~quantity.nan /\ quantity.value # 0
      /\ \/ key = Chars("gold") /\ quantity.value > CONFIG.maxQuantity.gold
         \/ key = Chars("silver") /\ quantity.value > CONFIG.maxQuantity.silver

\* `Maximum quantity for ${metalType} is ${maxQuantity} ${grams or kg}`
ceilingError(metalType) ==
  IF metalType = GoldStr THEN "Maximum quantity for Gold is 500 grams"
  ELSE IF metalType = SilverStr THEN "Maximum quantity for Silver is 50 kg"
  ELSE "Maximum quantity for the metal as typed, in kg"

\* validateBookingForm: errors maps each failing field to its message.
validateBookingForm_FirstErrorOnly(formData) ==
  LET loop   == [f \in {FormFields[i] : i \in 1..Len(FormFields)} |->
                   fieldError(formData, f)]
      failed == {f \in DOMAIN loop : loop[f] # ""}
                  \cup (IF overCeiling(formData) THEN {"quantity"} ELSE {})
      first  == {FormFields[i] : i \in {j \in 1..Len(FormFields) :
                   /\ FormFields[j] \in failed
                   /\ \A k \in 1..(j - 1) : FormFields[k] \notin failed}}
  IN  [isValid |-> failed = {},
       errors |-> [f \in first |->
                     IF f = "quantity" /\ overCeiling(formData)
                     THEN ceilingError(formData.metalType)
                     ELSE loop[f]]]

validateBookingForm(formData) ==
  LET loop   == [f \in {FormFields[i] : i \in 1..Len(FormFields)} |->
                   fieldError(formData, f)]
      failed == {f \in DOMAIN loop : loop[f] # ""}
                  \cup (IF overCeiling(formData) THEN {"quantity"} ELSE {})
  IN  [isValid |-> failed = {},
       errors |-> [f \in failed |->
                     IF f = "quantity" /\ overCeiling(formData)
                     THEN ceilingError(formData.metalType)
                     ELSE loop[f]]]

\* generateBookingId of the application script: "BOOK" and eight base-36
\* characters of Math.random(), in upper case.
generateBookingId(randomStr) == <<"BOOK", randomStr>>

\* processBooking: the record of one booking (its timestamp is not modelled)
processBooking_TwoPrices(formData, rates, randomStr) ==
  LET metalType    == formData.metalType
      quantity     == parseFloat(Chars(formData.quantity)).value
      currentPrice == IF metalType = GoldStr THEN rates.gold.price ELSE rates.silver.price
      otherPrice   == IF metalType = GoldStr THEN rates.silver.price ELSE rates.gold.price
      calculation  == calculateBookingValue(metalType, quantity, otherPrice)
  IN  [id |-> generateBookingId(randomStr),
       fullName |-> formData.fullName,
       phone |-> formData.phone,
       email |-> formData.email,
       metalType |-> metalType,
       quantity |-> quantity,
       unit |-> calculation.unit,
       currentPrice |-> currentPrice,
       pricePerGram |-> calculation.pricePerGram,
       totalValue |-> calculation.totalValue,
       status |-> "confirmed"]

processBooking(formData, rates, randomStr) ==
  LET metalType    == formData.metalType
      quantity     == parseFloat(Chars(formData.quantity)).value
      currentPrice == IF metalType = GoldStr THEN rates.gold.price ELSE rates.silver.price
      calculation  == calculateBookingValue(metalType, quantity, currentPrice)
  IN  [id |-> generateBookingId(randomStr),
       fullName |-> formData.fullName,
       phone |-> formData.phone,
       email |-> formData.email,
       metalType |-> metalType,
       quantity |-> quantity,
       unit |-> calculation.unit,
       currentPrice |-> currentPrice,
       pricePerGram |-> calculation.pricePerGram,
       totalValue |-> calculation.totalValue,
       status |-> "confirmed"]

\* ------------------------------------------------------------- JSON text
\* JSON.stringify of an object is modelled as the sequence of its
\* <<key, value>> members in property order; JSON.parse rebuilds the object
\* by looking each key up.
\* A localStorage item: getItem gives null (present FALSE) or the text.
NoItem == [present |-> FALSE, text |-> <<>>]
Item(text) == [present |-> TRUE, text |-> text]

Member(text, key) == text[CHOOSE i \in 1..Len(text) : text[i][1] = key][2]
HasMember(text, key) == \E i \in 1..Len(text) : text[i][1] = key

\* null, which is also what JSON.stringify writes for NaN and Infinity
Null == [null |-> TRUE]

stringifySnapshot(s) ==
  << <<"price", s.price>>, <<"change", s.change>>,
     <<"changePercent", IF s.changePercent.den = 0 THEN Null ELSE s.changePercent>>,
     <<"high", s.high>>, <<"low", s.low>> >>

parseSnapshot(text) ==
  [price |-> Member(text, "price"), change |-> Member(text, "change"),
   changePercent |-> Member(text, "changePercent"),
   high |-> Member(text, "high"), low |-> Member(text, "low")]

stringifyRates(rates) ==
  (IF "gold" \in DOMAIN rates THEN << <<"gold", stringifySnapshot(rates.gold)>> >>
   ELSE <<>>)
  \o (IF "silver" \in DOMAIN rates
      THEN << <<"silver", stringifySnapshot(rates.silver)>> >>
      ELSE <<>>)

\* The parsed object: a function on the keys the text holds.
parseRates(text) ==
  [m \in {k \in Metals : HasMember(text, k)} |-> parseSnapshot(Member(text, m))]

stringifyBooking(b) ==
  << <<"id", b.id>>, <<"fullName", b.fullName>>, <<"phone", b.phone>>,
     <<"email", b.email>>, <<"metalType", b.metalType>>, <<"quantity", b.quantity>>,
     <<"unit", b.unit>>, <<"currentPrice", b.currentPrice>>,
     <<"pricePerGram", b.pricePerGram>>, <<"totalValue", b.totalValue>>,
     <<"status", b.status>> >>

parseBooking(text) ==
  [id |-> Member(text, "id"), fullName |-> Member(text, "fullName"),
   phone |-> Member(text, "phone"), email |-> Member(text, "email"),
   metalType |-> Member(text, "metalType"), quantity |-> Member(text, "quantity"),
   unit |-> Member(text, "unit"), currentPrice |-> Member(text, "currentPrice"),
   pricePerGram |-> Member(text, "pricePerGram"),
   totalValue |-> Member(text, "totalValue"), status |-> Member(text, "status")]

\* An array is the sequence of its elements' texts.
stringifyBookings(bookings) == [i \in 1..Len(bookings) |-> stringifyBooking(bookings[i])]
parseBookings(text) == [i \in 1..Len(text) |-> parseBooking(text[i])]

\* ------------------------------------------------------------- storage
\* storage.get: the stored text parsed, or the default when the item is
\* missing or when getItem / JSON.parse throws (fails).

storage_get_currentRates(item, fails) ==
  IF fails \/ ~item.present THEN Null ELSE parseRates(item.text)

\* storage.get("bookings", [])
storage_get_bookings(item, fails) ==
  IF fails \/ ~item.present THEN <<>> ELSE parseBookings(item.text)

\* storage.set: setItem inside try/catch.  item is the stored text after the
\* call, logged says console.error ran, threw says the call threw to its
\* caller (the catch block never rethrows).
storage_set_Rethrows(item, text, fails) ==
  [item |-> IF fails THEN item ELSE Item(text), logged |-> fails, threw |-> fails]

storage_set(item, text, fails) ==
  [item |-> IF fails THEN item ELSE Item(text), logged |-> fails, threw |-> FALSE]

\* saveBooking writing a list of the new record alone.
saveBooking_Overwrites(item, bookingData, getFails, setFails) ==
  LET w == storage_set(item, stringifyBookings(<<bookingData>>), setFails)
  IN  [item |-> w.item,
       threw |-> w.threw,
       console |-> (IF getFails THEN {"Error getting data from localStorage"} ELSE {})
                   \cup (IF w.logged THEN {"Error setting data to localStorage"} ELSE {})]

\* saveBooking: read the list (or []), push, write it back.
saveBooking(item, bookingData, getFails, setFails) ==
  LET bookings == storage_get_bookings(item, getFails)
      w        == storage_set(item, stringifyBookings(Append(bookings, bookingData)),
                              setFails)
  IN  [item |-> w.item,
       threw |-> w.threw,
       console |-> (IF getFails THEN {"Error getting data from localStorage"} ELSE {})
                   \cup (IF w.logged THEN {"Error setting data to localStorage"} ELSE {})]

\* loadUserPreferences: currentRates = { ...currentRates, ...savedRates }
mergeRates_KeepsCurrent(rates, saved) == rates

mergeRates(rates, saved) ==
  IF saved = Null THEN rates
  ELSE [m \in Metals |-> IF m \in DOMAIN saved THEN saved[m] ELSE rates[m]]

\* updatePrices, whole: the new rates, what the display shows, the stored
\* text, and what was logged and toasted.
updatePrices_StoresOld(rates, item, rndGold, rndSilver, setFails) ==
  LET nr == newRates(rates, rndGold, rndSilver)
      w  == storage_set(item, stringifyRates(rates), setFails)
  IN  [rates |-> nr,
       displayed |-> nr,
       item |-> w.item,
       console |-> (IF w.logged THEN {"Error setting data to localStorage"} ELSE {})
                   \cup (IF w.threw THEN {"Error updating prices"} ELSE {}),
       toasts |-> IF w.threw THEN {"Failed to update prices"} ELSE {}]

updatePrices(rates, item, rndGold, rndSilver, setFails) ==
  LET nr == newRates(rates, rndGold, rndSilver)
      w  == storage_set(item, stringifyRates(nr), setFails)
  IN  [rates |-> nr,
       displayed |-> nr,
       item |-> w.item,
       console |-> (IF w.logged THEN {"Error setting data to localStorage"} ELSE {})
                   \cup (IF w.threw THEN {"Error updating prices"} ELSE {}),
       toasts |-> IF w.threw THEN {"Failed to update prices"} ELSE {}]

\* ------------------------------------------------------------ form inputs
\* The forms a user submits in the model: two that pass validation (one per
\* metal) and one with a bad phone and quantity.
SampleForms ==
  { [fullName |-> "Asha R", phone |-> "9876543210", email |-> "a@b.in",
     metalType |-> "Gold", quantity |-> "10"],
    [fullName |-> "Asha R", phone |-> "9876543210", email |-> "a@b.in",
     metalType |-> "Silver", quantity |-> "50"],
    [fullName |-> "Asha R", phone |-> "987", email |-> "a@b.in",
     metalType |-> "Gold", quantity |-> "abc"] }

\* The random parts generateBookingId draws in the model.
IdDraws == {"4FZ8K2QA", "9X1MB07C"}

\* ------------------------------------------------- earlier sessions' store
\* What the store holds when the page loads: nothing, or what an earlier
\* session of the program left there: the snapshot set of its last tick (here
\* after a long downward walk of gold) and the one booking it saved.
PriorRates ==
  [gold   |-> [price |-> Rupees(10), change |-> Rupees(10 - 99320),
               changePercent |-> calculatePercentageChange(Rupees(99320), Rupees(10)),
               high |-> Rupees(99580), low |-> Rupees(10)],
   silver |-> [price |-> Rupees(106740), change |-> Rupees(0 - 40),
               changePercent |-> calculatePercentageChange(Rupees(106780), Rupees(106740)),
               high |-> Rupees(107450), low |-> Rupees(106320)]]

PriorBooking ==
  processBooking([fullName |-> "Asha R", phone |-> "9876543210", email |-> "a@b.in",
                  metalType |-> "Gold", quantity |-> "2"],
                 PriorRates, "ZZ19PRQ7")

InitialStores ==
  { [rates |-> NoItem, bookings |-> NoItem],
    [rates |-> Item(stringifyRates(PriorRates)),
     bookings |-> Item(stringifyBookings(<<PriorBooking>>))] }

\* --------------------------------------------------------------- state
VARIABLES
  phase,               \* "loaded", "loading" (DOMContentLoaded seen), "running", "unloaded"
  currentRates,        \* let currentRates
  displayed,           \* the snapshot set the price elements show
  priceUpdateInterval, \* let priceUpdateInterval: 0 is undefined, else a timer id
  activeTimers,        \* the intervals setInterval created and clearInterval has not cleared
  nextTimerId,         \* the id the next setInterval returns
  isMarketOpen,        \* let isMarketOpen
  hidden,              \* document.hidden
  lsRates,             \* localStorage item "currentRates"
  lsBookings,          \* localStorage item "bookings"
  inflight,            \* validated submissions waiting out the 2000 ms delay, oldest first
  bookingLog,          \* the records processBooking returned, in order
  formErrors,          \* the field errors the form shows
  tickCount,           \* number of updatePrices calls so far
  restoreLog,          \* tickCount at each loadUserPreferences call
  storeFailures,       \* number of localStorage calls that threw so far
  consoleErrors,       \* console.error messages of the latest handler
  toasts,              \* toasts shown by the latest handler
  call                 \* the function call under inspection: its name, arguments and result

vars == <<phase, currentRates, displayed, priceUpdateInterval, activeTimers,
          nextTimerId, isMarketOpen, hidden, lsRates, lsBookings, inflight,
          bookingLog, formErrors, tickCount, restoreLog, storeFailures,
          consoleErrors, toasts, call>>

rateVars == <<currentRates, displayed, lsRates, tickCount>>
timerVars == <<priceUpdateInterval, activeTimers, nextTimerId>>
bookingVars == <<lsBookings, inflight, bookingLog, formErrors>>

NoDisplay == [none |-> TRUE]
NoErrors == [f \in {} |-> ""]
NoCall == [fn |-> "none"]

\* The events of the run so far, and whether n more fit the bound.
Spent == tickCount + Len(bookingLog) + Len(inflight) + storeFailures
Affordable(n) == Spent + n <= MaxEvents

\* A handler that calls the store n times where the call throws.
Failures(n) == storeFailures' = storeFailures + n
Count(b) == IF b THEN 1 ELSE 0

\* A handler that logs nothing, toasts nothing and leaves the store alone.
Quiet == consoleErrors' = {} /\ toasts' = {} /\ UNCHANGED storeFailures

\* The state after the script was evaluated, had currentRates started with
\* high and low at the price.
Init_FlatHighLow ==
  /\ phase = "loaded"
  /\ currentRates = [m \in Metals |->
                       [CONFIG.initialRates[m] EXCEPT
                          !.high = CONFIG.initialRates[m].price,
                          !.low = CONFIG.initialRates[m].price]]
  /\ displayed = NoDisplay
  /\ priceUpdateInterval = 0
  /\ activeTimers = {}
  /\ nextTimerId = 1
  /\ isMarketOpen = TRUE
  /\ hidden = FALSE
  /\ \E store \in InitialStores : lsRates = store.rates /\ lsBookings = store.bookings
  /\ inflight = <<>>
  /\ bookingLog = <<>>
  /\ formErrors = NoErrors
  /\ tickCount = 0
  /\ restoreLog = <<>>
  /\ storeFailures = 0
  /\ consoleErrors = {}
  /\ toasts = {}
  /\ call = NoCall

Init ==
  /\ phase = "loaded"
  /\ currentRates = [m \in Metals |-> CONFIG.initialRates[m]]
  /\ displayed = NoDisplay
  /\ priceUpdateInterval = 0
  /\ activeTimers = {}
  /\ nextTimerId = 1
  /\ isMarketOpen = TRUE
  /\ hidden = FALSE
  /\ \E store \in InitialStores : lsRates = store.rates /\ lsBookings = store.bookings
  /\ inflight = <<>>
  /\ bookingLog = <<>>
  /\ formErrors = NoErrors
  /\ tickCount = 0
  /\ restoreLog = <<>>
  /\ storeFailures = 0
  /\ consoleErrors = {}
  /\ toasts = {}
  /\ call = NoCall

\* ------------------------------------------------------------- actions
\* document DOMContentLoaded: show the loading screen, arm the start-up timeout.
DOMContentLoaded ==
  /\ phase = "loaded"
  /\ phase' = "loading"
  /\ Quiet
  /\ UNCHANGED <<rateVars, timerVars, bookingVars, isMarketOpen, hidden, restoreLog, call>>

\* One updatePrices() call on the state.
RunUpdatePrices(rndGold, rndSilver, setFails) ==
  LET u == updatePrices(currentRates, lsRates, rndGold, rndSilver, setFails)
  IN  /\ Affordable(1 + Count(setFails))
      /\ currentRates' = u.rates
      /\ displayed' = u.displayed
      /\ lsRates' = u.item
      /\ consoleErrors' = u.console
      /\ toasts' = u.toasts
      /\ tickCount' = tickCount + 1
      /\ Failures(Count(setFails))

\* setInterval(...): a new interval whose id overwrites priceUpdateInterval.
SetInterval ==
  /\ priceUpdateInterval' = nextTimerId
  /\ activeTimers' = activeTimers \cup {nextTimerId}
  /\ nextTimerId' = nextTimerId + 1

\* The start-up timeout: hideLoadingScreen(); initializeApp(), that is
\* updatePriceDisplay, startPriceUpdates, initializeEventListeners,
\* updateMarketStatus (the clock decides isMarketOpen), loadUserPreferences.
InitializeApp ==
  /\ phase = "loading"
  /\ \E rndGold \in RandomDraws, rndSilver \in RandomDraws,
        setFails \in BOOLEAN, getFails \in BOOLEAN, open \in BOOLEAN :
       LET u     == updatePrices(currentRates, lsRates, rndGold, rndSilver, setFails)
           saved == storage_get_currentRates(u.item, getFails)
       IN  /\ Affordable(1 + Count(setFails) + Count(getFails))
           /\ currentRates' = mergeRates(u.rates, saved)
           /\ displayed' = u.displayed
           /\ lsRates' = u.item
           /\ consoleErrors' = u.console
                \cup (IF getFails THEN {"Error getting data from localStorage"} ELSE {})
           /\ toasts' = u.toasts
           /\ isMarketOpen' = open
           /\ Failures(Count(setFails) + Count(getFails))
  /\ tickCount' = tickCount + 1
  /\ restoreLog' = Append(restoreLog, tickCount + 1)
  /\ SetInterval
  /\ phase' = "running"
  /\ UNCHANGED <<bookingVars, hidden, call>>

\* The interval callback: if (isMarketOpen) updatePrices()
TimerTick ==
  /\ phase = "running"
  /\ \E id \in activeTimers :
       IF isMarketOpen
       THEN \E rndGold \in RandomDraws, rndSilver \in RandomDraws, setFails \in BOOLEAN :
              RunUpdatePrices(rndGold, rndSilver, setFails)
       ELSE Quiet /\ UNCHANGED rateVars
  /\ UNCHANGED <<phase, timerVars, bookingVars, isMarketOpen, hidden, restoreLog, call>>

\* visibilitychange with document.hidden true: clearInterval(priceUpdateInterval)
\* if it is set.  The listener exists only once initializeEventListeners ran.
HiddenEvent ==
  /\ phase # "unloaded"
  /\ ~hidden
  /\ hidden' = TRUE
  /\ activeTimers' = IF phase = "running" /\ priceUpdateInterval # 0
                     THEN activeTimers \ {priceUpdateInterval}
                     ELSE activeTimers
  /\ Quiet
  /\ UNCHANGED <<phase, rateVars, priceUpdateInterval, nextTimerId, bookingVars,
                 isMarketOpen, restoreLog, call>>

\* visibilitychange with document.hidden false: startPriceUpdates()
VisibleEvent ==
  /\ phase # "unloaded"
  /\ hidden
  /\ hidden' = FALSE
  /\ IF phase = "running"
     THEN /\ \E rndGold \in RandomDraws, rndSilver \in RandomDraws, setFails \in BOOLEAN :
               RunUpdatePrices(rndGold, rndSilver, setFails)
          /\ SetInterval
     ELSE Quiet /\ UNCHANGED <<rateVars, timerVars>>
  /\ UNCHANGED <<phase, bookingVars, isMarketOpen, restoreLog, call>>

\* window beforeunload: cleanup().  The page itself may stay (the navigation
\* can turn out to be a download), so the phase is left alone.
BeforeUnload ==
  /\ phase # "unloaded"
  /\ activeTimers' = IF priceUpdateInterval # 0
                     THEN activeTimers \ {priceUpdateInterval}
                     ELSE activeTimers
  /\ Quiet
  /\ UNCHANGED <<phase, rateVars, priceUpdateInterval, nextTimerId, bookingVars,
                 isMarketOpen, hidden, restoreLog, call>>

\* The page is discarded: its memory, timers and document are gone, the
\* store stays.
Unload ==
  /\ phase # "unloaded"
  /\ phase' = "unloaded"
  /\ currentRates' = [m \in Metals |-> CONFIG.initialRates[m]]
  /\ displayed' = NoDisplay
  /\ priceUpdateInterval' = 0
  /\ activeTimers' = {}
  /\ nextTimerId' = 1
  /\ isMarketOpen' = TRUE
  /\ hidden' = FALSE
  /\ inflight' = <<>>
  /\ bookingLog' = <<>>
  /\ formErrors' = NoErrors
  /\ tickCount' = 0
  /\ restoreLog' = <<>>
  /\ storeFailures' = 0
  /\ consoleErrors' = {}
  /\ toasts' = {}
  /\ UNCHANGED <<lsRates, lsBookings, call>>

\* handleBookingSubmission without the return after showFormErrors.
SubmitBooking_FallsThrough ==
  /\ phase = "running"
  /\ \E formData \in SampleForms :
       LET validationResult == validateBookingForm(formData)
       IN  /\ Affordable(1)
           /\ inflight' = Append(inflight, formData)
           /\ formErrors' = IF ~validationResult.isValid
                            THEN validationResult.errors ELSE formErrors
  /\ Quiet
  /\ UNCHANGED <<phase, rateVars, timerVars, lsBookings, bookingLog, isMarketOpen,
                 hidden, restoreLog, call>>

\* handleBookingSubmission up to its await: validate the form; show the
\* errors and return, or start the 2000 ms wait.
SubmitBooking ==
  /\ phase = "running"
  /\ \E formData \in SampleForms :
       LET validationResult == validateBookingForm(formData)
       IN  IF ~validationResult.isValid
           THEN /\ formErrors' = validationResult.errors
                /\ UNCHANGED inflight
           ELSE /\ Affordable(1)
                /\ inflight' = Append(inflight, formData)
                /\ UNCHANGED formErrors
  /\ Quiet
  /\ UNCHANGED <<phase, rateVars, timerVars, lsBookings, bookingLog, isMarketOpen,
                 hidden, restoreLog, call>>

\* handleBookingSubmission after its await (the waits all last 2000 ms, so
\* the oldest ends first): processBooking, showBookingSuccess,
\* closeBookingModal, saveBooking, the success toast.
CompleteBooking ==
  /\ phase = "running"
  /\ inflight # <<>>
  /\ \E randomStr \in IdDraws, getFails \in BOOLEAN, setFails \in BOOLEAN :
       LET bookingData == processBooking(Head(inflight), currentRates, randomStr)
           saved       == saveBooking(lsBookings, bookingData, getFails, setFails)
       IN  /\ Affordable(Count(getFails) + Count(setFails))
           /\ bookingLog' = Append(bookingLog, bookingData)
           /\ lsBookings' = saved.item
           /\ consoleErrors' = saved.console
                \cup (IF saved.threw THEN {"Booking submission error"} ELSE {})
           /\ toasts' = IF saved.threw
                        THEN {"Failed to process booking. Please try again."}
                        ELSE {"Booking confirmed successfully!"}
           /\ Failures(Count(getFails) + Count(setFails))
  /\ inflight' = Tail(inflight)
  /\ formErrors' = NoErrors
  /\ UNCHANGED <<phase, rateVars, timerVars, isMarketOpen, hidden, restoreLog, call>>

Next ==
  \/ DOMContentLoaded
  \/ InitializeApp
  \/ TimerTick
  \/ HiddenEvent
  \/ VisibleEvent
  \/ BeforeUnload
  \/ Unload
  \/ SubmitBooking
  \/ CompleteBooking

Spec == Init /\ [][Next]_vars

\* ------------------------------------------------ the functions on their own
\* A second specification applies the script's functions (and the utils.js
\* versions of them) to inputs drawn from the sets below; the page itself
\* stays as it was loaded.  A behaviour is one call, which call holds.
programVars == <<phase, currentRates, displayed, priceUpdateInterval, activeTimers,
                 nextTimerId, isMarketOpen, hidden, lsRates, lsBookings, inflight,
                 bookingLog, formErrors, tickCount, restoreLog, storeFailures,
                 consoleErrors, toasts>>

\* What the form's fields can hold when it is submitted.
FormInputs ==
  [fullName : {"Asha R", "R2", ""},
   phone : {"9876543210", "1234567890", "98765432", ""},
   email : {"a@b.in", "a.b"},
   metalType : {"Gold", "Silver", "Platinum", ""},
   quantity : {"10", "50", "51", "500", "501", "1000", "1001", "0.5", "abc", ""}]

\* Arguments of calculateBookingValue: quantity in 1/QtyScale units, price in paise.
MetalTypeInputs == {"Gold", "Silver", "Platinum"}
QuantityInputs == {5, 10 * QtyScale, 50 * QtyScale, 200 * QtyScale}
PriceInputs == {0, Rupees(99320), Rupees(99320) + 2495, Rupees(106780)}

FunctionInit == Init /\ lsRates = NoItem /\ lsBookings = NoItem

CallCalculateBookingValue ==
  /\ call = NoCall
  /\ \E metalType \in MetalTypeInputs, quantity \in QuantityInputs,
        currentPrice \in PriceInputs :
       \/ call' = [fn |-> "calculateBookingValue",
                   args |-> [metalType |-> metalType, quantity |-> quantity,
                             currentPrice |-> currentPrice],
                   result |-> calculateBookingValue(metalType, quantity, currentPrice)]
       \/ call' = [fn |-> "utils.calculateBookingValue",
                   args |-> [metalType |-> metalType, quantity |-> quantity,
                             currentPrice |-> currentPrice],
                   result |-> utils_calculateBookingValue(metalType, quantity,
                                                          currentPrice)]
  /\ UNCHANGED programVars

CallValidateBookingForm ==
  /\ call = NoCall
  /\ \E formData \in FormInputs :
       call' = [fn |-> "validateBookingForm", args |-> formData,
                result |-> validateBookingForm(formData)]
  /\ UNCHANGED programVars

\* Prices in paise, a baseline of 0 among them.
PercentInputs == {0, Rupees(99320), Rupees(99320) + 2495}

CallCalculatePercentageChange ==
  /\ call = NoCall
  /\ \E oldPrice \in PercentInputs, newPrice \in PercentInputs :
       \/ call' = [fn |-> "calculatePercentageChange",
                   args |-> [oldPrice |-> oldPrice, newPrice |-> newPrice],
                   result |-> calculatePercentageChange(oldPrice, newPrice)]
       \/ call' = [fn |-> "utils.calculatePercentageChange",
                   args |-> [oldPrice |-> oldPrice, newPrice |-> newPrice],
                   result |-> utils_calculatePercentageChange(oldPrice, newPrice)]
  /\ UNCHANGED programVars

\* Snapshot sets found under currentRates: of both metals or of one, and one
\* whose changePercent is not a finite number.
RateSetInputs ==
  { PriorRates,
    newRates(CONFIG.initialRates, 0, 999),
    [gold |-> PriorRates.gold],
    [silver |-> PriorRates.silver],
    [gold |-> [PriorRates.gold EXCEPT !.changePercent = [num |-> 100, den |-> 0]],
     silver |-> PriorRates.silver] }

FiniteRates(S) == \A m \in DOMAIN S : S[m].changePercent.den # 0

\* storage.set("currentRates", S) on the empty store, then
\* loadUserPreferences on the page as loaded.
CallPersistAndRestore ==
  /\ call = NoCall
  /\ \E S \in RateSetInputs :
       LET w     == storage_set(lsRates, stringifyRates(S), FALSE)
           saved == storage_get_currentRates(w.item, FALSE)
       IN  call' = [fn |-> "loadUserPreferences", args |-> S,
                    result |-> mergeRates(currentRates, saved)]
  /\ UNCHANGED programVars

\* handleBookingSubmission from the submit event to its return or its await:
\* the validation result, the errors showFormErrors puts on the form, what
\* was toasted and logged, and whether the handler went on to its wait.
showFormErrorsAndReturn(validationResult) ==
  [validationResult |-> validationResult,
   shown |-> IF ~validationResult.isValid THEN validationResult.errors ELSE NoErrors,
   toasts |-> {},
   console |-> {},
   awaits |-> validationResult.isValid]

handleBookingSubmission_validate(formData) ==
  showFormErrorsAndReturn(validateBookingForm(formData))

CallHandleBookingSubmission ==
  /\ call = NoCall
  /\ \E formData \in FormInputs :
       call' = [fn |-> "handleBookingSubmission", args |-> formData,
                result |-> handleBookingSubmission_validate(formData)]
  /\ UNCHANGED programVars

\* validateField on one field's value, as the form can hold it.
\* Names at and around the length limits: 1, 2, 50 and 51 characters.
NameInputs ==
  {"R", "2", "Al",
   "aaaaaaaaaaaaaaaaaaaaaaaaaaaaaaaaaaaaaaaaaaaaaaaaaa",
   "aaaaaaaaaaaaaaaaaaaaaaaaaaaaaaaaaaaaaaaaaaaaaaaaaaa",
   "aaaaaaaaaaaaaaaaaaaaaaaaaaaaaaaaaaaaaaaaaaaaaaaaaa2"}

FieldInputs(fieldName) ==
  {formData[fieldName] : formData \in FormInputs}
    \cup (IF fieldName = "fullName" THEN NameInputs ELSE {})

CallValidateField ==
  /\ call = NoCall
  /\ \E fieldName \in {"fullName", "phone", "email", "quantity"} :
       \E value \in FieldInputs(fieldName) :
         \/ call' = [fn |-> "validateField",
                     args |-> [fieldName |-> IF fieldName = "fullName" THEN "name"
                                             ELSE fieldName,
                               value |-> value],
                     result |-> validateField(IF fieldName = "fullName" THEN "name"
                                              ELSE fieldName, Chars(value))]
         \/ call' = [fn |-> "utils.validateField",
                     args |-> [fieldName |-> IF fieldName = "fullName" THEN "name"
                                             ELSE fieldName,
                               value |-> value],
                     result |-> utils_validateField(IF fieldName = "fullName" THEN "name"
                                                    ELSE fieldName, Chars(value),
                                                    configFile)]
  /\ UNCHANGED programVars

FunctionNext ==
  \/ CallValidateField
  \/ CallCalculateBookingValue
  \/ CallValidateBookingForm
  \/ CallCalculatePercentageChange
  \/ CallPersistAndRestore
  \/ CallHandleBookingSubmission

FunctionSpec == FunctionInit /\ [][FunctionNext]_vars

\* ================================================================ claims
\* The stored bookings list, parsed ([] when the item is missing).
StoredBookings == IF lsBookings.present THEN parseBookings(lsBookings.text) ELSE <<>>

\* The rate-store key of a record's metal, as processBooking's ternary picks it.
MetalKey(metalType) == IF metalType = "Gold" THEN "gold" ELSE "silver"

IsPrefix(a, b) == Len(a) <= Len(b) /\ \A i \in 1..Len(a) : a[i] = b[i]

Last(seq) == seq[Len(seq)]

\* A step in which updatePrices ran.
TickStep == tickCount' = tickCount + 1

\* A step in which processBooking returned a record.
BookingStep == Len(bookingLog') = Len(bookingLog) + 1

\* C1: in every state reached after any sequence of ticks, each metal has
\* price >= 0 and low <= price <= high.
C1_PriceWithinLowHigh ==
  \A m \in Metals :
    /\ currentRates[m].price >= 0
    /\ currentRates[m].low <= currentRates[m].price
    /\ currentRates[m].price <= currentRates[m].high

\* C1 witness: a second tick has run and floored the gold price at 0, which
\* is now also the low.
C1_Witness ==
  /\ tickCount >= 2
  /\ currentRates.gold.price = 0
  /\ currentRates.gold.low = 0
  /\ currentRates.gold.high > 0

\* C2: over ticks, pauses and resumes, high never decreases and low never
\* increases (the page being discarded aside).
C2_HighLowMonotonic ==
  [][phase' # "unloaded" =>
       \A m \in Metals :
         /\ currentRates'[m].high >= currentRates[m].high
         /\ currentRates'[m].low <= currentRates[m].low]_vars

\* C2 witness: after a pause and a resume (a second interval was created and
\* the page is visible again) the gold low is below the restored one.
C2_Witness ==
  /\ phase = "running"
  /\ nextTimerId = 3
  /\ ~hidden
  /\ currentRates.gold.low < PriorRates.gold.low
  /\ currentRates.gold.high = PriorRates.gold.high

\* C3: between the surface becoming hidden and its becoming visible again no
\* tick runs and no rate-snapshot field changes.
C3_NoTickWhileHidden ==
  [][(hidden /\ hidden') =>
       (currentRates' = currentRates /\ tickCount' = tickCount)]_vars

\* C4: a booking record's currentPrice is the selected metal's price at the
\* instant processBooking runs, its pricePerGram and totalValue are computed
\* from that same value, and no later step, a tick included, changes a
\* record already produced.
C4_SinglePriceSnapshot ==
  [][phase' # "unloaded" =>
       /\ IsPrefix(bookingLog, bookingLog')
       /\ BookingStep =>
            LET b == Last(bookingLog')
                c == calculateBookingValue(b.metalType, b.quantity, b.currentPrice)
            IN  /\ b.currentPrice = currentRates[MetalKey(b.metalType)].price
                /\ b.pricePerGram = c.pricePerGram
                /\ b.totalValue = c.totalValue
       /\ TickStep => (bookingLog' = bookingLog /\ lsBookings' = lsBookings)]_vars

\* C4 witness: a record exists whose currentPrice is no longer the price of
\* its metal: a tick ran after it was produced.
C4_Witness ==
  /\ Len(bookingLog) = 1
  /\ tickCount = 2
  /\ bookingLog[1].currentPrice # currentRates[MetalKey(bookingLog[1].metalType)].price
  /\ StoredBookings # <<>>
  /\ Last(StoredBookings) = bookingLog[1]

\* C5: restore (loadUserPreferences) runs exactly once at start-up and before
\* the first tick: once a tick has run, the one restore came before any tick.
C5_RestoreBeforeFirstTick ==
  /\ tickCount > 0 => Len(restoreLog) = 1
  /\ \A i \in 1..Len(restoreLog) : restoreLog[i] = 0

\* C6: the persisted bookings list is append-only: each booking leaves the
\* stored list equal to the previous one with the new record at the end, and
\* no step removes, reorders or changes an earlier stored record.
C6_BookingsAppendOnly ==
  [][/\ IsPrefix(StoredBookings, StoredBookings')
     /\ BookingStep => StoredBookings' = Append(StoredBookings, Last(bookingLog'))]_vars

\* One metal's snapshot after a tick, from the one before it: the price moved
\* by a fluctuation within half of maxFluctuation either way or was floored at
\* 0, and change, changePercent, high and low follow from it.
TickedMetal(m, old, new) ==
  /\ new.price >= 0
  /\ \E f \in (0 - CONFIG.maxFluctuation[m] \div 2)..(CONFIG.maxFluctuation[m] \div 2) :
       new.price = Max(0, old.price + f)
  /\ new.change = new.price - CONFIG.initialRates[m].price
  /\ new.changePercent = [num |-> new.change * 100, den |-> CONFIG.initialRates[m].price]
  /\ new.high = Max(old.high, new.price)
  /\ new.low = Min(old.low, new.price)

\* C7: when the store write fails during a tick, updatePrices still completes:
\* both metals are updated as in any tick, nothing is reported as failed, and
\* only the stored value stays stale.
C7_TickSurvivesWriteFailure ==
  [][(TickStep /\ "Error setting data to localStorage" \in consoleErrors') =>
       /\ \A m \in Metals : TickedMetal(m, currentRates[m], displayed'[m])
       /\ phase = "running" => currentRates' = displayed'
       /\ "Failed to update prices" \notin toasts'
       /\ "Error updating prices" \notin consoleErrors'
       /\ lsRates' = lsRates]_vars

\* C7 witness: the latest handler was a tick whose store write failed; the
\* rates moved on and the stored text is not the current snapshot set.
C7_Witness ==
  /\ phase = "running"
  /\ tickCount = 2
  /\ "Error setting data to localStorage" \in consoleErrors
  /\ toasts = {}
  /\ currentRates = displayed
  /\ lsRates # Item(stringifyRates(currentRates))

\* C8: a record is created and stored only for a submission that passed
\* validation, one record with status "confirmed" per such submission; a
\* submission that fails validation creates no record, starts no wait and
\* leaves the stored list alone.
C8_RecordOnlyAfterValidation ==
  [][phase' # "unloaded" =>
       /\ Len(bookingLog') \in {Len(bookingLog), Len(bookingLog) + 1}
       /\ BookingStep =>
            /\ inflight # <<>>
            /\ inflight' = Tail(inflight)
            /\ Last(bookingLog').status = "confirmed"
            /\ \A f \in {"fullName", "phone", "email", "metalType"} :
                 Last(bookingLog')[f] = Head(inflight)[f]
       /\ lsBookings' # lsBookings =>
            (BookingStep /\ Last(StoredBookings') = Last(bookingLog'))
       /\ (formErrors' # formErrors /\ formErrors' # NoErrors) =>
            (bookingLog' = bookingLog /\ lsBookings' = lsBookings /\ inflight' = inflight)
       /\ \A i \in 1..Len(inflight') :
            \A f \in DOMAIN inflight'[i] : trim(Chars(inflight'[i][f])) # <<>>]_vars

\* C8 witness: one booking was made and stored, and a later submission was
\* rejected with field errors.
C8_Witness ==
  /\ Len(bookingLog) = 1
  /\ bookingLog[1].status = "confirmed"
  /\ StoredBookings # <<>>
  /\ Last(StoredBookings) = bookingLog[1]
  /\ formErrors # NoErrors
  /\ inflight = <<>>

\* C9: for Silver the valuation used for a booking has pricePerGram =
\* currentPrice / 1000 rounded to 2 decimals, totalValue = (currentPrice /
\* 1000) x quantity rounded to the nearest integer, and unit "grams".
C9_SilverValuation ==
  \A i \in 1..Len(bookingLog) :
    LET b == bookingLog[i]
    IN  b.metalType = "Silver" =>
          /\ b.unit = "grams"
          /\ b.pricePerGram =
               roundTo2Decimals(ExactMulDiv(b.currentPrice, 1, PriceScale * 1000))
          /\ b.totalValue =
               WholeAmount(mathRound(ExactMulDiv(b.currentPrice, b.quantity,
                                                 PriceScale * 1000 * QtyScale)))

\* C10: for Gold the valuation used for a booking has pricePerGram =
\* currentPrice / 10 rounded to 2 decimals, totalValue = (currentPrice / 10) x
\* quantity rounded to the nearest integer, and unit "grams".
C10_GoldValuation ==
  \A i \in 1..Len(bookingLog) :
    LET b == bookingLog[i]
    IN  b.metalType = "Gold" =>
          /\ b.unit = "grams"
          /\ b.pricePerGram =
               roundTo2Decimals(ExactMulDiv(b.currentPrice, 1, PriceScale * 10))
          /\ b.totalValue =
               WholeAmount(mathRound(ExactMulDiv(b.currentPrice, b.quantity,
                                                 PriceScale * 10 * QtyScale)))
\* C11: a metalType other than Gold and Silver is rejected: the calculator
\* returns no valuation for it (it signals an error instead), and booking
\* validation does not accept a form that carries it, so no record of such a
\* metal is produced.
C11_UnknownMetalRejected ==
  /\ (/\ call.fn \in {"calculateBookingValue", "utils.calculateBookingValue"}
      /\ call.args.metalType \notin {GoldStr, SilverStr})
       => "totalValue" \notin DOMAIN call.result
  /\ (/\ call.fn = "validateBookingForm"
      /\ call.args.metalType \notin {GoldStr, SilverStr})
       => ~call.result.isValid

\* A validateBookingForm call on a form of Gold or Silver whose every field
\* passes the per-field checks.
OtherwiseValidCall ==
  /\ call.fn = "validateBookingForm"
  /\ call.args.metalType \in {GoldStr, SilverStr}
  /\ \A i \in 1..Len(FormFields) : fieldError(call.args, FormFields[i]) = ""

\* C12: for an otherwise valid form, validation fails exactly when the
\* quantity exceeds the configured maximum of the selected metal, and then
\* with an error on the quantity field alone; a quantity equal to the maximum
\* is accepted, and each metal has its own ceiling.
C12_QuantityCeiling ==
  OtherwiseValidCall =>
    LET quantity == Number(Chars(call.args.quantity)).value
        ceiling  == CONFIG.maxQuantity[MetalKey(call.args.metalType)]
    IN  /\ call.result.isValid <=> quantity <= ceiling
        /\ quantity > ceiling =>
             /\ DOMAIN call.result.errors = {"quantity"}
             /\ call.result.errors.quantity = ceilingError(call.args.metalType)
        /\ CONFIG.maxQuantity.gold # CONFIG.maxQuantity.silver

\* C12 witness: a gold form one gram over the gold ceiling was rejected with
\* the ceiling message on its quantity field.
C12_Witness ==
  /\ OtherwiseValidCall
  /\ call.args.metalType = GoldStr
  /\ Number(Chars(call.args.quantity)).value = CONFIG.maxQuantity.gold + QtyScale
  /\ ~call.result.isValid
  /\ call.result.errors.quantity = "Maximum quantity for Gold is 500 grams"

\* C13: after every tick, for each metal, change = price - baseline price and
\* changePercent = change / baseline price x 100, the baseline being the
\* configured initial price (CONFIG.initialRates, which the script copies
\* into currentRates and never assigns).
C13_ChangeFromBaseline ==
  [][TickStep =>
       \A m \in Metals :
         \A s \in {displayed'[m], currentRates'[m]} :
           /\ s.change = s.price - CONFIG.initialRates[m].price
           /\ s.changePercent =
                [num |-> s.change * 100, den |-> CONFIG.initialRates[m].price]]_vars

\* C13 witness: two ticks have run; the gold price has left both the baseline
\* and the price before the first tick, and change is measured from the
\* baseline.
C13_Witness ==
  /\ phase = "running"
  /\ tickCount = 2
  /\ lsBookings = NoItem
  /\ currentRates.gold.price = CONFIG.initialRates.gold.price - CONFIG.maxFluctuation.gold
  /\ currentRates.gold.change = 0 - CONFIG.maxFluctuation.gold

\* C14: with a baseline price of 0 the percentage change is 0, a finite
\* number, whatever the new price is.
C14_ZeroBaselinePercent ==
  (/\ call.fn \in {"calculatePercentageChange", "utils.calculatePercentageChange"}
   /\ call.args.oldPrice = 0)
    => (call.result.num = 0 /\ call.result.den # 0)

\* No tick and no restore has run yet.
BeforeFirstTick == tickCount = 0 /\ restoreLog = <<>>

\* C15 as stated: in the initial state, before any tick or restore, each
\* metal's snapshot has high = low = price = baseline price.
C15_InitialHighLowAtPrice ==
  BeforeFirstTick =>
    \A m \in Metals :
      /\ currentRates[m].price = CONFIG.initialRates[m].price
      /\ currentRates[m].high = currentRates[m].price
      /\ currentRates[m].low = currentRates[m].price

\* C15 amended: in the initial state, before any tick or restore, each
\* metal's snapshot is the configured initial snapshot: its price is the
\* baseline price and its high and low are the configured ones, which lie
\* strictly above and below the price.
C15_InitialIsConfigured ==
  BeforeFirstTick =>
    \A m \in Metals :
      /\ currentRates[m] = CONFIG.initialRates[m]
      /\ currentRates[m].price = CONFIG.initialRates[m].price
      /\ currentRates[m].low < currentRates[m].price
      /\ currentRates[m].price < currentRates[m].high

\* C15 witness: the page is waiting out its loading delay, hidden meanwhile;
\* nothing has ticked and the gold high is the configured 99580.
C15_Witness ==
  /\ BeforeFirstTick
  /\ phase = "loading"
  /\ hidden
  /\ currentRates.gold.price = Rupees(99320)
  /\ currentRates.gold.high = Rupees(99580)
  /\ currentRates.gold.low = Rupees(98950)

C17_StoredRatesAfterTick ==
  [][(TickStep /\ "Error setting data to localStorage" \notin consoleErrors') =>
       /\ lsRates'.present
       /\ lsRates' = Item(stringifyRates(currentRates'))
       /\ \A m \in Metals :
            /\ HasMember(lsRates'.text, m)
            /\ parseSnapshot(Member(lsRates'.text, m)) = currentRates'[m]
       /\ lsBookings' = lsBookings]_vars

\* C17 witness: two ticks have run, the latest wrote the store, and the
\* stored snapshot set, no longer the configured one, is the one in memory.
C17_Witness ==
  /\ phase = "running"
  /\ tickCount = 2
  /\ consoleErrors = {}
  /\ lsRates.present
  /\ parseSnapshot(Member(lsRates.text, "gold")) = currentRates.gold
  /\ parseSnapshot(Member(lsRates.text, "silver")) = currentRates.silver
  /\ currentRates.gold.price < CONFIG.initialRates.gold.price

\* C18: round trip: for every snapshot set S of finite numbers, persisting S
\* under currentRates and then restoring leaves the in-memory snapshot of
\* every metal present in S equal to S field for field, the persisted values
\* winning over the initialised ones; a metal absent from S keeps its own.
C18_RestoreRoundTrip ==
  (call.fn = "loadUserPreferences" /\ FiniteRates(call.args)) =>
    \A m \in Metals :
      IF m \in DOMAIN call.args
      THEN \A f \in {"price", "change", "changePercent", "high", "low"} :
             call.result[m][f] = call.args[m][f]
      ELSE call.result[m] = CONFIG.initialRates[m]

\* C18 witness: a snapshot set of gold alone, different from the initialised
\* one, was persisted and restored: gold is the persisted snapshot.
C18_Witness ==
  /\ call.fn = "loadUserPreferences"
  /\ DOMAIN call.args = {"gold"}
  /\ call.args.gold.price # CONFIG.initialRates.gold.price
  /\ call.result.gold = call.args.gold
  /\ call.result.silver = CONFIG.initialRates.silver

\* A field of a submitted form that is missing (empty once trimmed) or that
\* validateField rejects.
MissingOrInvalid(formData, fieldName) ==
  LET value == trim(Chars(formData[fieldName]))
  IN  \/ value = <<>>
      \/ ~validateField(IF fieldName = "fullName" THEN "name" ELSE fieldName,
                        value).isValid

\* C19: when booking validation fails, the result holds an error entry for
\* every field that is invalid or missing among fullName, phone, email,
\* metalType and quantity, not only for the first; the errors come back as
\* data, are shown on the form, and no failure is toasted or logged for them.
C19_AllFieldErrors ==
  (call.fn = "handleBookingSubmission" /\ ~call.result.validationResult.isValid) =>
    /\ \A i \in 1..Len(FormFields) :
         MissingOrInvalid(call.args, FormFields[i]) =>
           /\ FormFields[i] \in DOMAIN call.result.validationResult.errors
           /\ call.result.validationResult.errors[FormFields[i]] # ""
    /\ call.result.validationResult.errors # NoErrors
    /\ call.result.shown = call.result.validationResult.errors
    /\ call.result.toasts = {}
    /\ call.result.console = {}
    /\ ~call.result.awaits

\* C19 witness: a form with all five fields bad came back with five errors.
C19_Witness ==
  /\ call.fn = "handleBookingSubmission"
  /\ \A i \in 1..Len(FormFields) : MissingOrInvalid(call.args, FormFields[i])
  /\ call.args.phone # ""
  /\ DOMAIN call.result.validationResult.errors =
       {"fullName", "phone", "email", "metalType", "quantity"}

\* Ten digits of which the first is 6, 7, 8 or 9.
TenDigitsFromSixToNine(str) ==
  /\ Len(str) = 10
  /\ \A i \in 1..Len(str) : str[i] \in DigitChars
  /\ DigitValue(str[1]) >= 6

\* C20: phone validation accepts a value exactly when it is 10 digits long
\* with a first digit in {6, 7, 8, 9}, and booking validation accepts no form
\* whose phone is outside this set.
C20_PhoneIsIndianMobile ==
  /\ (/\ call.fn \in {"validateField", "utils.validateField"}
      /\ call.args.fieldName = "phone")
       => (call.result.isValid <=> TenDigitsFromSixToNine(Chars(call.args.value)))
  /\ (call.fn = "validateBookingForm" /\ call.result.isValid)
       => TenDigitsFromSixToNine(trim(Chars(call.args.phone)))

\* A quantity as typed that parses as a number of at least the configured
\* minimum.
AtLeastMinimum(str) ==
  /\ ~parseFloat(str).nan
  /\ parseFloat(str).value >= configFile.validation.quantity.min

\* C21: quantity validation rejects every value that does not parse as a
\* number or that is below the configured minimum of 1, and booking
\* validation accepts no form with such a quantity, so none reaches the
\* calculator or a record.
C21_QuantityMinimum ==
  /\ (/\ call.fn \in {"validateField", "utils.validateField"}
      /\ call.args.fieldName = "quantity")
       => (call.result.isValid <=> AtLeastMinimum(Chars(call.args.value)))
  /\ (call.fn = "validateBookingForm" /\ call.result.isValid)
       => AtLeastMinimum(Chars(call.args.quantity))

\* C22: name validation rejects a value shorter than minLength, longer than
\* maxLength or failing the letters-and-spaces pattern, and reports the
\* first failing check in that order: too short and non-alphabetic gets the
\* minimum-length error, too long and non-alphabetic the maximum-length one.
C22_NameChecksInOrder ==
  (/\ call.fn \in {"validateField", "utils.validateField"}
   /\ call.args.fieldName = "name")
    => LET value == Chars(call.args.value)
           rules == configFile.validation.name
       IN  IF Len(value) < rules.minLength
           THEN /\ ~call.result.isValid
                /\ call.result.error = "Name must be at least 2 characters"
           ELSE IF Len(value) > rules.maxLength
           THEN /\ ~call.result.isValid
                /\ call.result.error = "Name must not exceed 50 characters"
           ELSE call.result.isValid <=> matchesName(value)

\* C23: no two booking records carry the same id, bookings made in the same
\* instant included, and every id has three parts: the fixed prefix, the
\* base-36 creation instant and a random base-36 suffix, in upper case.
C23_UniqueTimestampedIds ==
  /\ \A i \in 1..Len(bookingLog) : \A j \in 1..Len(bookingLog) :
       i # j => bookingLog[i].id # bookingLog[j].id
  /\ \A i \in 1..Len(bookingLog) :
       /\ Len(bookingLog[i].id) = 3
       /\ bookingLog[i].id[Len(bookingLog[i].id)] \in IdDraws

\* C24: in every valuation the returned pricePerGram has two decimals and
\* the returned totalValue is that pricePerGram times the quantity, rounded
\* to the nearest whole rupee.
C24_TotalFromRoundedUnitPrice ==
  call.fn \in {"calculateBookingValue", "utils.calculateBookingValue"} =>
    LET perGram == call.result.pricePerGram
        paise   == perGram.int * PriceScale + (perGram.frac * PriceScale) \div Micro
    IN  /\ perGram.frac % (Micro \div PriceScale) = 0
        /\ call.result.totalValue =
             WholeAmount(mathRound(ExactMulDiv(paise, call.args.quantity,
                                               PriceScale * QtyScale)))

\* C25: at most one periodic price-update timer is active at any time,
\* whatever the order of start-up, hidden, visible and unload events, and
\* while the surface is hidden (paused) no timer is running.
C25_AtMostOneTimer ==
  /\ Cardinality(activeTimers) <= 1
  /\ hidden => activeTimers = {}

\* C26: prices change only while the market is open: a step taken while
\* isMarketOpen is false, and the start-up that finds the market closed,
\* modify no rate-snapshot field of either metal (the page being discarded
\* aside).
C26_NoChangeWhileClosed ==
  [][phase' # "unloaded" =>
       /\ ~isMarketOpen => currentRates' = currentRates
       /\ (phase = "loading" /\ phase' = "running" /\ ~isMarketOpen')
            => currentRates' = currentRates]_vars

\* The last n elements of a sequence.
Suffix(seq, n) == SubSeq(seq, Len(seq) - n + 1, Len(seq))

\* C27: submissions that wait out the delay together lose no booking: every
\* completion whose store calls work appends its record to the stored list,
\* whatever is still waiting and whatever ticks ran in between, so that while
\* no store call has failed the stored list ends with the session's records
\* in completion order; and no other step touches the stored list or the
\* session's records.
C27_NoBookingLost ==
  [][IF BookingStep
     THEN /\ storeFailures' = storeFailures
               => StoredBookings' = Append(StoredBookings, Last(bookingLog'))
          /\ storeFailures' = 0
               => /\ Len(StoredBookings') >= Len(bookingLog')
                  /\ Suffix(StoredBookings', Len(bookingLog')) = bookingLog'
     ELSE /\ lsBookings' = lsBookings
          /\ bookingLog' = bookingLog \/ phase' = "unloaded"]_vars

\* The first of two overlapping submissions has just completed (its toast is
\* still the latest handler's output) while the second is waiting, and the
\* store, which held an earlier session's booking, now holds both.
C27_Witness ==
  /\ phase = "running"
  /\ Len(inflight) = 1
  /\ Len(bookingLog) = 1
  /\ toasts = {"Booking confirmed successfully!"}
  /\ storeFailures = 0
  /\ StoredBookings = <<PriorBooking, bookingLog[1]>>
  /\ inflight[1].metalType # bookingLog[1].metalType

====
